---- MODULE Spec2Model ----
(***************************************************************************)
(* Model of Final-Project/scripts/split_pitches.py: main, split_file and   *)
(* write_pitch.  A CSV table is a sequence of rows, a row is a sequence of *)
(* fields and a field is a sequence of one-character strings, so that      *)
(* str.strip() and float() are computed on the characters.                 *)
(***************************************************************************)
EXTENDS Integers, Sequences, FiniteSets, TLC

VARIABLES input_exists, input, pc, exit_code, run,
          base, pitch_idx, current_rows, header, pos,
          outdir_exists, files, stdout, writes, prev_files

vars == <<input_exists, input, pc, exit_code, run,
          base, pitch_idx, current_rows, header, pos,
          outdir_exists, files, stdout, writes, prev_files>>

(* ------------------------------ bounds --------------------------------- *)
\* largest number of rows after the header in an input file
MaxRows == 4

(* ------------------------- the input alphabet -------------------------- *)
T_zero    == <<"0", ".", "0">>
T_spzero  == <<" ", "-", "0", ".", "0", " ">>
T_tenth   == <<"0", ".", "1">>
T_text    == <<"x">>
T_name    == <<"t">>

\* rows after the header: a blank line, two boundary rows, two other rows
DataRows == { <<>>, <<T_zero>>, <<T_spzero, T_text>>, <<T_tenth>>, <<T_text, T_zero>> }
\* header rows: a column name, or a header whose first field reads as 0.0
HeaderRows == { <<T_name>>, <<T_zero>> }
\* contents of an input file: nothing at all, or a header and up to MaxRows rows
InputTables ==
    { <<>> } \cup
    UNION { { <<h>> \o d : h \in HeaderRows, d \in [1..n -> DataRows] } : n \in 0..MaxRows }

\* Path(args.input).stem of the input path
InputStem == "in"

(* ---------------------- str.strip() and float() ------------------------ *)
IsSpace(c) == c \in {" ", "\t"}

RECURSIVE LStrip(_)
LStrip(s) == IF s # <<>> /\ IsSpace(Head(s)) THEN LStrip(Tail(s)) ELSE s

RECURSIVE RStrip(_)
RStrip(s) == IF s # <<>> /\ IsSpace(s[Len(s)]) THEN RStrip(SubSeq(s, 1, Len(s) - 1)) ELSE s

\* row[0].strip()
Strip(s) == RStrip(LStrip(s))

Digits == {"0", "1", "2", "3", "4", "5", "6", "7", "8", "9"}

DigitVal(c) ==
    CASE c = "0" -> 0 [] c = "1" -> 1 [] c = "2" -> 2 [] c = "3" -> 3 [] c = "4" -> 4
      [] c = "5" -> 5 [] c = "6" -> 6 [] c = "7" -> 7 [] c = "8" -> 8 [] c = "9" -> 9

\* the integer written by the digits of s, the decimal point skipped
RECURSIVE Mantissa(_)
Mantissa(s) ==
    IF s = <<>> THEN 0
    ELSE LET c == s[Len(s)]
             r == SubSeq(s, 1, Len(s) - 1)
         IN IF c = "." THEN Mantissa(r) ELSE 10 * Mantissa(r) + DigitVal(c)

\* t = None, the value of the except branch
None == [ok |-> FALSE, num |-> 0, exp |-> 0]

\* float(t_str) for decimal literals [sign] digits [. digits]: the value is
\* num / 10^exp; anything else raises ValueError and the caller takes None.
Float(s) ==
    LET u      == Strip(s)
        signed == u # <<>> /\ Head(u) \in {"+", "-"}
        body   == IF signed THEN Tail(u) ELSE u
        dots   == { i \in 1..Len(body) : body[i] = "." }
        digs   == { i \in 1..Len(body) : body[i] \in Digits }
        wellformed == /\ \A i \in 1..Len(body) : body[i] \in Digits \cup {"."}
                      /\ Cardinality(dots) <= 1
                      /\ digs # {}
        m      == Mantissa(body)
        e      == IF dots = {} THEN 0 ELSE Len(body) - (CHOOSE i \in dots : TRUE)
    IN IF wellformed
       THEN [ok |-> TRUE, num |-> (IF signed /\ Head(u) = "-" THEN 0 - m ELSE m), exp |-> e]
       ELSE None

\* the except branch setting t = 0.0 instead of None
EqualsZeroOrNone(t) == t.num = 0

\* t == 0.0
EqualsZero(t) == t.ok /\ t.num = 0

\* lines 50-58: does the row start a new pitch
IsBoundary(row) == EqualsZero(Float(Strip(row[1])))

(* ----------------------------- write_pitch ----------------------------- *)
\* the decimal digits of n, most significant first
RECURSIVE DecDigits(_)
DecDigits(n) == IF n < 10 THEN <<n>> ELSE Append(DecDigits(n \div 10), n % 10)

\* minimum field width of the format spec 03d
PadWidth == 3

RECURSIVE ZeroPad(_, _)
ZeroPad(d, w) == IF Len(d) >= w THEN d ELSE ZeroPad(<<0>> \o d, w)

\* f"{idx:03d}"
Fmt03d(idx) == ZeroPad(DecDigits(idx), PadWidth)

\* f"{base}_pitch_{idx:03d}.csv"
FileName(b, idx) == <<b, "_pitch_", Fmt03d(idx), ".csv">>

\* write_pitch without writer.writerow(header)
FileContentNoHeader(hdr, rows) == rows

\* writer.writerow(header); writer.writerows(rows) on a file opened with "w"
FileContent(hdr, rows) == <<hdr>> \o rows

\* the directory after outpath.open("w") ... : the file is created or truncated
WritePitch(fs, b, idx, hdr, rows) ==
    [f \in DOMAIN fs \cup {FileName(b, idx)} |->
        IF f = FileName(b, idx) THEN FileContent(hdr, rows) ELSE fs[f]]

\* the record of one call of write_pitch
WriteCall(b, idx, rows) == [idx |-> idx, name |-> FileName(b, idx), rows |-> rows]

\* print(f"Wrote {path} ({len(current_rows)} rows)")
WroteLine(b, idx, rows) == [msg |-> "Wrote", path |-> FileName(b, idx), n |-> Len(rows)]

\* print("Input file is empty")
EmptyLine == [msg |-> "Input file is empty", path |-> <<>>, n |-> 0]

NoFiles == [f \in {} |-> <<>>]

(* ------------------------------- states -------------------------------- *)
Init ==
    /\ input_exists \in BOOLEAN
    /\ input \in (IF input_exists THEN InputTables ELSE {<<>>})
    /\ pc = "main"
    /\ exit_code = 0
    /\ run = 1
    /\ base = ""
    /\ pitch_idx = 0
    /\ current_rows = <<>>
    /\ header = <<>>
    /\ pos = 1
    /\ outdir_exists = FALSE
    /\ files = NoFiles
    /\ stdout = <<>>
    /\ writes = <<>>
    /\ prev_files = NoFiles

\* main, lines 88-89: the input path does not exist
MainInputMissing ==
    /\ pc = "main"
    /\ ~input_exists
    /\ pc' = "exit_error"
    /\ exit_code' = 1
    /\ UNCHANGED <<input_exists, input, run, base, pitch_idx, current_rows, header, pos,
                   outdir_exists, files, stdout, writes, prev_files>>

\* main without the input_path.exists() test of line 88
EnterSplitFileUnchecked ==
    /\ pc = "main"
    /\ pc' = "read_header"
    /\ base' = InputStem
    /\ pitch_idx' = 0
    /\ current_rows' = <<>>
    /\ header' = <<>>
    /\ pos' = 1
    /\ UNCHANGED <<input_exists, input, exit_code, run,
                   outdir_exists, files, stdout, writes, prev_files>>

\* split_file with a pitch counter that outlives the call (line 34 missing)
EnterSplitFileNoReset ==
    /\ pc = "main"
    /\ input_exists
    /\ pc' = "read_header"
    /\ base' = InputStem
    /\ current_rows' = <<>>
    /\ header' = <<>>
    /\ pos' = 1
    /\ UNCHANGED <<input_exists, input, exit_code, run, pitch_idx,
                   outdir_exists, files, stdout, writes, prev_files>>

\* main, line 91 and split_file, lines 33-36: enter split_file
EnterSplitFile ==
    /\ pc = "main"
    /\ input_exists
    /\ pc' = "read_header"
    /\ base' = InputStem
    /\ pitch_idx' = 0
    /\ current_rows' = <<>>
    /\ header' = <<>>
    /\ pos' = 1
    /\ UNCHANGED <<input_exists, input, exit_code, run,
                   outdir_exists, files, stdout, writes, prev_files>>

\* lines 40-44: next(reader) raises StopIteration
ReadHeaderEmpty ==
    /\ pc = "read_header"
    /\ pos > Len(input)
    /\ stdout' = Append(stdout, EmptyLine)
    /\ pc' = "done"
    /\ UNCHANGED <<input_exists, input, exit_code, run, base, pitch_idx, current_rows,
                   header, pos, outdir_exists, files, writes, prev_files>>

\* lines 40-41: header = next(reader)
ReadHeader ==
    /\ pc = "read_header"
    /\ pos <= Len(input)
    /\ header' = input[pos]
    /\ pos' = pos + 1
    /\ pc' = "scan"
    /\ UNCHANGED <<input_exists, input, exit_code, run, base, pitch_idx, current_rows,
                   outdir_exists, files, stdout, writes, prev_files>>

\* an empty row kept as a data row instead of skipped
SkipEmptyRowAppends ==
    /\ pc = "scan"
    /\ pos <= Len(input)
    /\ input[pos] = <<>>
    /\ current_rows' = Append(current_rows, input[pos])
    /\ pos' = pos + 1
    /\ UNCHANGED <<input_exists, input, pc, exit_code, run, base, pitch_idx,
                   header, outdir_exists, files, stdout, writes, prev_files>>

\* lines 46-48: an empty row is skipped
SkipEmptyRow ==
    /\ pc = "scan"
    /\ pos <= Len(input)
    /\ input[pos] = <<>>
    /\ pos' = pos + 1
    /\ UNCHANGED <<input_exists, input, pc, exit_code, run, base, pitch_idx, current_rows,
                   header, outdir_exists, files, stdout, writes, prev_files>>

\* the flush without current_rows = [] (line 64 missing)
BoundaryFlushNoClear ==
    /\ pc = "scan"
    /\ pos <= Len(input)
    /\ input[pos] # <<>>
    /\ IsBoundary(input[pos])
    /\ current_rows # <<>>
    /\ pitch_idx' = pitch_idx + 1
    /\ outdir_exists' = TRUE
    /\ files' = WritePitch(files, base, pitch_idx + 1, header, current_rows)
    /\ writes' = Append(writes, WriteCall(base, pitch_idx + 1, current_rows))
    /\ stdout' = Append(stdout, WroteLine(base, pitch_idx + 1, current_rows))
    /\ current_rows' = Append(current_rows, input[pos])
    /\ pos' = pos + 1
    /\ UNCHANGED <<input_exists, input, pc, exit_code, run, base, header, prev_files>>

\* the flush without current_rows.append(row) (line 66 missing)
BoundaryFlushDropsRow ==
    /\ pc = "scan"
    /\ pos <= Len(input)
    /\ input[pos] # <<>>
    /\ IsBoundary(input[pos])
    /\ current_rows # <<>>
    /\ pitch_idx' = pitch_idx + 1
    /\ outdir_exists' = TRUE
    /\ files' = WritePitch(files, base, pitch_idx + 1, header, current_rows)
    /\ writes' = Append(writes, WriteCall(base, pitch_idx + 1, current_rows))
    /\ stdout' = Append(stdout, WroteLine(base, pitch_idx + 1, current_rows))
    /\ current_rows' = <<>>
    /\ pos' = pos + 1
    /\ UNCHANGED <<input_exists, input, pc, exit_code, run, base, header, prev_files>>

\* lines 58-66, buffer non-empty: flush the buffer, start a new pitch
BoundaryFlush ==
    /\ pc = "scan"
    /\ pos <= Len(input)
    /\ input[pos] # <<>>
    /\ IsBoundary(input[pos])
    /\ current_rows # <<>>
    /\ pitch_idx' = pitch_idx + 1
    /\ outdir_exists' = TRUE
    /\ files' = WritePitch(files, base, pitch_idx + 1, header, current_rows)
    /\ writes' = Append(writes, WriteCall(base, pitch_idx + 1, current_rows))
    /\ stdout' = Append(stdout, WroteLine(base, pitch_idx + 1, current_rows))
    /\ current_rows' = <<input[pos]>>
    /\ pos' = pos + 1
    /\ UNCHANGED <<input_exists, input, pc, exit_code, run, base, header, prev_files>>

\* lines 58-66, buffer empty: the boundary row opens the first pitch
BoundaryFirst ==
    /\ pc = "scan"
    /\ pos <= Len(input)
    /\ input[pos] # <<>>
    /\ IsBoundary(input[pos])
    /\ current_rows = <<>>
    /\ current_rows' = Append(current_rows, input[pos])
    /\ pos' = pos + 1
    /\ UNCHANGED <<input_exists, input, pc, exit_code, run, base, pitch_idx, header,
                   outdir_exists, files, stdout, writes, prev_files>>

\* the else branch without the eager increment of lines 69-70
NonBoundaryRowNoIncrement ==
    /\ pc = "scan"
    /\ pos <= Len(input)
    /\ input[pos] # <<>>
    /\ ~IsBoundary(input[pos])
    /\ pitch_idx' = pitch_idx
    /\ current_rows' = Append(current_rows, input[pos])
    /\ pos' = pos + 1
    /\ UNCHANGED <<input_exists, input, pc, exit_code, run, base, header,
                   outdir_exists, files, stdout, writes, prev_files>>

\* the else branch incrementing on every row (the test of line 69 missing)
NonBoundaryRowAlwaysIncrements ==
    /\ pc = "scan"
    /\ pos <= Len(input)
    /\ input[pos] # <<>>
    /\ ~IsBoundary(input[pos])
    /\ pitch_idx' = pitch_idx + 1
    /\ current_rows' = Append(current_rows, input[pos])
    /\ pos' = pos + 1
    /\ UNCHANGED <<input_exists, input, pc, exit_code, run, base, header,
                   outdir_exists, files, stdout, writes, prev_files>>

\* lines 67-71: a row that is not a boundary
NonBoundaryRow ==
    /\ pc = "scan"
    /\ pos <= Len(input)
    /\ input[pos] # <<>>
    /\ ~IsBoundary(input[pos])
    /\ pitch_idx' = (IF current_rows = <<>> THEN pitch_idx + 1 ELSE pitch_idx)
    /\ current_rows' = Append(current_rows, input[pos])
    /\ pos' = pos + 1
    /\ UNCHANGED <<input_exists, input, pc, exit_code, run, base, header,
                   outdir_exists, files, stdout, writes, prev_files>>

\* line 46: the reader is exhausted, the loop ends
EndOfInput ==
    /\ pc = "scan"
    /\ pos > Len(input)
    /\ pc' = "final"
    /\ UNCHANGED <<input_exists, input, exit_code, run, base, pitch_idx, current_rows,
                   header, pos, outdir_exists, files, stdout, writes, prev_files>>

\* line 75: pitch_idx if pitch_idx>0 else 1
FinalIdx(idx) == IF idx > 0 THEN idx ELSE 1

\* lines 75-76 without the test of line 74
FinalFlushUnguarded ==
    /\ pc = "final"
    /\ outdir_exists' = TRUE
    /\ files' = WritePitch(files, base, FinalIdx(pitch_idx), header, current_rows)
    /\ writes' = Append(writes, WriteCall(base, FinalIdx(pitch_idx), current_rows))
    /\ stdout' = Append(stdout, WroteLine(base, FinalIdx(pitch_idx), current_rows))
    /\ pc' = "done"
    /\ UNCHANGED <<input_exists, input, exit_code, run, base, pitch_idx, current_rows,
                   header, pos, prev_files>>

\* lines 74-76: write the remaining buffer
FinalFlush ==
    /\ pc = "final"
    /\ current_rows # <<>>
    /\ outdir_exists' = TRUE
    /\ files' = WritePitch(files, base, FinalIdx(pitch_idx), header, current_rows)
    /\ writes' = Append(writes, WriteCall(base, FinalIdx(pitch_idx), current_rows))
    /\ stdout' = Append(stdout, WroteLine(base, FinalIdx(pitch_idx), current_rows))
    /\ pc' = "done"
    /\ UNCHANGED <<input_exists, input, exit_code, run, base, pitch_idx, current_rows,
                   header, pos, prev_files>>

\* line 74: the buffer is empty, nothing is written
FinalNoFlush ==
    /\ pc = "final"
    /\ current_rows = <<>>
    /\ pc' = "done"
    /\ UNCHANGED <<input_exists, input, exit_code, run, base, pitch_idx, current_rows,
                   header, pos, outdir_exists, files, stdout, writes, prev_files>>

\* the script is run again on the same input with a fresh output directory
SecondRun ==
    /\ pc = "done"
    /\ run = 1
    /\ run' = 2
    /\ prev_files' = files
    /\ files' = NoFiles
    /\ outdir_exists' = FALSE
    /\ stdout' = <<>>
    /\ writes' = <<>>
    /\ pc' = "main"
    /\ UNCHANGED <<input_exists, input, exit_code, base, pitch_idx, current_rows,
                   header, pos>>

Next ==
    \/ MainInputMissing
    \/ EnterSplitFile
    \/ ReadHeaderEmpty
    \/ ReadHeader
    \/ SkipEmptyRow
    \/ BoundaryFlush
    \/ BoundaryFirst
    \/ NonBoundaryRow
    \/ EndOfInput
    \/ FinalFlush
    \/ FinalNoFlush
    \/ SecondRun

Spec == Init /\ [][Next]_vars

TypeOK ==
    /\ pc \in {"main", "exit_error", "read_header", "scan", "final", "done"}
    /\ pitch_idx \in 0..(MaxRows + 1)
    /\ pos \in 1..(Len(input) + 1)
    /\ run \in 1..2

(* ------------------- what a run is expected to produce ------------------ *)
\* the rows after the header that the scan does not skip
NonEmptyData(tbl) == IF tbl = <<>> THEN <<>> ELSE SelectSeq(Tail(tbl), LAMBDA r : r # <<>>)

\* the pitch groups of a row sequence: a group starts at every boundary row,
\* rows before the first boundary row form the first group
RECURSIVE PitchGroups(_)
PitchGroups(d) ==
    IF d = <<>> THEN <<>>
    ELSE LET g == PitchGroups(SubSeq(d, 1, Len(d) - 1))
             r == d[Len(d)]
         IN IF g = <<>> \/ IsBoundary(r)
            THEN Append(g, <<r>>)
            ELSE [g EXCEPT ![Len(g)] = Append(@, r)]

\* the data rows of the output files with pitch index 1..n that exist, in index order
RECURSIVE ConcatOutputs(_)
ConcatOutputs(n) ==
    IF n = 0 THEN <<>>
    ELSE ConcatOutputs(n - 1) \o
         (IF FileName(InputStem, n) \in DOMAIN files
          THEN Tail(files[FileName(InputStem, n)]) ELSE <<>>)

\* no call of write_pitch can use an index above this
MaxIdx == MaxRows + 2

\* the pitch indices whose output file exists
ExistingIdx == { i \in 1..MaxIdx : FileName(InputStem, i) \in DOMAIN files }

\* split_file has returned after scanning a table that has a header
Returned == pc = "done" /\ input # <<>>

(* -------------------------------- claims -------------------------------- *)
\* C1: once split_file has returned on a fresh output directory, the data rows
\* of the output files, concatenated in ascending pitch index, are exactly the
\* non-empty data rows of the input in their original order.
C1_Partition ==
    Returned => ConcatOutputs(MaxIdx) = NonEmptyData(input)

\* C2: the k-th call of write_pitch of a run writes to pitch index k, under the
\* name <stem>_pitch_<k zero-padded to 3 digits>.csv.
C2_SequentialNumbering ==
    \A k \in 1..Len(writes) :
        /\ writes[k].idx = k
        /\ writes[k].name = <<InputStem, "_pitch_", Fmt03d(k), ".csv">>

\* C3: no flush writes to a file name an earlier flush of the same run wrote,
\* so after the run there is one file per pitch group; when the input starts
\* with a boundary row, file i holds the i-th group.
C3_OneFilePerFlush ==
    /\ \A i, j \in 1..Len(writes) : i < j => writes[i].name # writes[j].name
    /\ Returned =>
         LET g == PitchGroups(NonEmptyData(input))
         IN /\ Cardinality(DOMAIN files) = Len(g)
            /\ (g # <<>> /\ IsBoundary(g[1][1])) =>
                 \A i \in 1..Len(g) :
                     /\ FileName(InputStem, i) \in DOMAIN files
                     /\ Tail(files[FileName(InputStem, i)]) = g[i]

\* C4: when the first non-empty data row is not a boundary row, the file
\* <stem>_pitch_001.csv exists after the run and its data rows are the rows
\* before the first boundary row.
C4_LeadingPartialGroup ==
    LET d == NonEmptyData(input)
    IN (Returned /\ d # <<>> /\ ~IsBoundary(d[1])) =>
         /\ FileName(InputStem, 1) \in DOMAIN files
         /\ Tail(files[FileName(InputStem, 1)]) = PitchGroups(d)[1]

\* C5: after a run, every output file with pitch index above 1 (and the file
\* with index 1 when the input starts with a boundary row) has a boundary row
\* as its first data row.
C5_BoundaryCorrectness ==
    LET d == NonEmptyData(input)
    IN Returned =>
         \A i \in ExistingIdx :
             (i > 1 \/ (d # <<>> /\ IsBoundary(d[1]))) =>
                 /\ Len(files[FileName(InputStem, i)]) >= 2
                 /\ IsBoundary(files[FileName(InputStem, i)][2])

\* C6: every file written by a flush has the header row of the input as its
\* first row.
C6_HeaderPropagation ==
    \A f \in DOMAIN files : files[f] # <<>> /\ files[f][1] = input[1]

\* C6 witness: a boundary-triggered flush and the end-of-input flush have
\* both written, into different files
C6_Witness ==
    pc = "done" /\ Len(writes) >= 2 /\ Cardinality(DOMAIN files) >= 2

\* C7: there is one "Wrote" line per output file, and the file a line names
\* holds, when the run ends, the number of data rows the line states.
C7_ConfirmationLines ==
    Returned =>
        /\ Cardinality({ k \in 1..Len(stdout) : stdout[k].msg = "Wrote" })
             = Cardinality(DOMAIN files)
        /\ \A k \in 1..Len(stdout) :
               stdout[k].msg = "Wrote" =>
                   /\ stdout[k].path \in DOMAIN files
                   /\ Len(files[stdout[k].path]) - 1 = stdout[k].n

\* C8: on an input with no rows at all, or with a header and no non-empty
\* data row, split_file returns without calling write_pitch: no file, no
\* output directory, pitch counter 0.
C8_NoOpOnEmptyInput ==
    (pc = "done" /\ NonEmptyData(input) = <<>>) =>
        /\ writes = <<>>
        /\ files = NoFiles
        /\ ~outdir_exists
        /\ pitch_idx = 0
        /\ exit_code = 0

\* C8 witness: a run over a header followed only by blank rows has returned
C8_Witness ==
    pc = "done" /\ Len(input) >= 3 /\ NonEmptyData(input) = <<>>

\* C9: with a missing input path main stops with a non-zero exit status
\* before split_file is entered, and nothing is created or written.
C9_MissingInputFailsFast ==
    ~input_exists =>
        /\ pc \in {"main", "exit_error"}
        /\ (pc = "exit_error" => exit_code # 0)
        /\ ~outdir_exists
        /\ files = NoFiles
        /\ writes = <<>>
        /\ stdout = <<>>

\* C9 witness: main has stopped on a missing input
C9_Witness ==
    ~input_exists /\ pc = "exit_error"

\* C10: two runs on the same input, each into a fresh output directory, end
\* with the same set of files, names and contents.
C10_Determinism ==
    (run = 2 /\ pc = "done") => files = prev_files

\* C10 witness: the second run has ended having written several files
C10_Witness ==
    run = 2 /\ pc = "done" /\ Cardinality(DOMAIN files) >= 2

(* ---------------------------- the scan so far --------------------------- *)
\* the non-empty data rows the loop has already processed
ScannedData ==
    IF input = <<>> THEN <<>>
    ELSE SelectSeq(SubSeq(input, 2, pos - 1), LAMBDA r : r # <<>>)

\* the loop of split_file is running or has just ended
InScan == pc \in {"scan", "final"}

\* the loop is about to process a non-empty row whose field 0 float() rejects
AtUnparsableRow ==
    /\ pc = "scan"
    /\ pos <= Len(input)
    /\ input[pos] # <<>>
    /\ ~Float(Strip(input[pos][1])).ok

\* the loop is about to process a row with zero fields
AtEmptyRow == pc = "scan" /\ pos <= Len(input) /\ input[pos] = <<>>

\* the row lists of the calls of write_pitch, concatenated in call order
RECURSIVE ConcatWrites(_)
ConcatWrites(n) == IF n = 0 THEN <<>> ELSE ConcatWrites(n - 1) \o writes[n].rows

\* the sum of the row counts of the first n lines of standard output
RECURSIVE SumPrinted(_)
SumPrinted(n) == IF n = 0 THEN 0 ELSE SumPrinted(n - 1) + stdout[n].n

\* C11 (as stated): whenever the buffer is non-empty at end of input the pitch
\* counter is greater than 0, so the final flush never uses the substitute 1.
C11_FallbackUnreachable ==
    (pc = "final" /\ current_rows # <<>>) => pitch_idx > 0

\* C11 (amended): with a non-empty buffer at end of input the pitch counter is
\* 0 exactly when the first non-empty data row was a boundary row and no
\* boundary-triggered flush has happened; only then does the final flush use
\* the substitute 1, otherwise it uses the counter itself.
C11_FallbackOnlyWithoutFlush ==
    /\ (pc = "final" /\ current_rows # <<>>) =>
          (pitch_idx = 0 <=> (writes = <<>> /\ IsBoundary(ScannedData[1])))
    /\ (pc = "done" /\ writes # <<>>) =>
          writes[Len(writes)].idx = (IF pitch_idx = 0 THEN 1 ELSE pitch_idx)

\* C11 witness: the final flush has used the substitute index 1
C11_Witness ==
    /\ pc = "done"
    /\ pitch_idx = 0
    /\ Len(writes) = 1
    /\ writes[1].idx = 1
    /\ Len(current_rows) >= 2

\* C12: processing a row whose field 0 does not parse as a number triggers no
\* flush (no write, no file change, no confirmation line) and appends the row
\* to the current buffer.
C12_ParseFailureNotBoundary ==
    [][ AtUnparsableRow =>
          /\ writes' = writes
          /\ files' = files
          /\ stdout' = stdout
          /\ outdir_exists' = outdir_exists
          /\ current_rows' = Append(current_rows, input[pos]) ]_vars

\* C12 witness: an unparsable row has been appended to a group in progress
C12_Witness ==
    /\ pc = "scan"
    /\ pos > 2
    /\ input[pos - 1] # <<>>
    /\ ~Float(Strip(input[pos - 1][1])).ok
    /\ Len(current_rows) >= 2
    /\ current_rows[Len(current_rows)] = input[pos - 1]

\* C13: processing a row with zero fields leaves the buffer, the pitch counter
\* and the output files unchanged, and no such row is ever in the buffer or
\* among the data rows of an output file.
C13_EmptyRowsSkipped ==
    [][ /\ AtEmptyRow =>
             UNCHANGED <<current_rows, pitch_idx, files, outdir_exists, writes, stdout>>
        /\ \A k \in 1..Len(current_rows') : current_rows'[k] # <<>>
        /\ \A f \in DOMAIN files' :
               \A k \in 2..Len(files'[f]) : files'[f][k] # <<>> ]_vars

\* C13 witness: a run has ended that skipped an empty row standing between a
\* boundary row and the row after it, and has written a file
C13_Witness ==
    /\ pc = "done"
    /\ files # NoFiles
    /\ \E k \in 3..(Len(input) - 1) :
           /\ input[k] = <<>>
           /\ input[k - 1] # <<>> /\ IsBoundary(input[k - 1])
           /\ input[k + 1] # <<>>

\* C14: the row lists passed to the successive calls of write_pitch,
\* concatenated in call order, are the non-empty data rows of the input, and
\* the row counts of the confirmation lines sum to their number.
C14_WriteConservation ==
    /\ InScan => ConcatWrites(Len(writes)) \o current_rows = ScannedData
    /\ pc = "done" =>
          /\ ConcatWrites(Len(writes)) = NonEmptyData(input)
          /\ SumPrinted(Len(stdout)) = Len(NonEmptyData(input))

\* C14 witness: a run has ended in which a later call of write_pitch wrote
\* over the file of an earlier one
C14_Witness ==
    /\ pc = "done"
    /\ Len(writes) >= 2
    /\ Cardinality(DOMAIN files) < Len(writes)

\* C15: during the scan the pitch counter is the number of boundary-triggered
\* flushes so far, plus 1 if the first non-empty data row processed was not a
\* boundary row; it never decreases, it is incremented without a flush only on
\* the first non-empty data row, and the end-of-input flush leaves it alone.
C15_CounterAccounting ==
    [][ /\ InScan' =>
             pitch_idx' = Len(writes') +
                 (IF ScannedData' # <<>> /\ ~IsBoundary(ScannedData'[1]) THEN 1 ELSE 0)
        /\ (pc = "scan" \/ pc = "final") => pitch_idx' >= pitch_idx
        /\ (pc = "scan" /\ pitch_idx' # pitch_idx /\ writes' = writes) =>
             (ScannedData = <<>> /\ pitch_idx' = pitch_idx + 1)
        /\ pc = "final" => pitch_idx' = pitch_idx ]_vars

\* C15 witness: the scan has ended after a leading non-boundary row and two
\* boundary-triggered flushes
C15_Witness ==
    /\ pc = "final"
    /\ Len(writes) = 2
    /\ pitch_idx = 3
    /\ ~IsBoundary(ScannedData[1])

\* C16: during the scan the buffer holds at most one boundary row, and only at
\* its first position; once a non-empty data row has been processed the buffer
\* is never empty again.
C16_BufferShape ==
    InScan =>
        /\ \A k \in 2..Len(current_rows) : ~IsBoundary(current_rows[k])
        /\ ScannedData # <<>> => current_rows # <<>>

\* C16 witness: after a flush the buffer holds the boundary row that caused
\* the flush, followed by a later row
C16_Witness ==
    /\ pc = "scan"
    /\ writes # <<>>
    /\ Len(current_rows) >= 2
    /\ IsBoundary(current_rows[1])
====
